---- MODULE Spec2Model ----
(***************************************************************************)
(* State-machine model of axelrod/fingerprint.py (class AshlockFingerprint)*)
(* Steps are exact rationals <<n, d>> (d > 0, lowest terms); grid values   *)
(* are the exact rationals that np.linspace(0, 1, L) samples.  Up to 6     *)
(* values per axis the floats agree with the fractions on every test the   *)
(* code makes (int(1 / step), x + y >= 1, equality of points); from 7      *)
(* values on a float sum on the diagonal can round below 1                 *)
(* (1/6 + 5/6 = 0.9999999999999999), which exact fractions do not show.    *)
(***************************************************************************)
EXTENDS Integers, Sequences, FiniteSets, TLC

\* ---------------------------------------------------------------- bounds
MaxDen == 2       \* steps are n/d with d in 1..MaxDen
MaxReps == 2      \* repetitions range over 1..MaxReps
ScoreMod == 5     \* per-turn scores of a trial range over 0..ScoreMod-1

\* ------------------------------------------------------------ arithmetic
Abs(a) == IF a < 0 THEN -a ELSE a

RECURSIVE GCD(_, _)
GCD(a, b) == IF b = 0 THEN a ELSE GCD(b, a % b)

\* the float n/d as an exact rational in lowest terms
Frac(n, d) == LET g == GCD(Abs(n), d) IN <<n \div g, d \div g>>

\* Python's int(a / b): truncation toward zero (b # 0)
IntDiv(a, b) ==
    IF (a >= 0) = (b > 0) THEN Abs(a) \div Abs(b) ELSE -(Abs(a) \div Abs(b))

\* Python's None where a string is expected (filename)
None == "None"

\* Python's None where a step or a matrix is expected
NoStep == <<>>
NoMatrix == <<>>

\* the steps 1/d, their negatives and 0
Steps ==
    {s \in (-1..1) \X (1..MaxDen) : GCD(Abs(s[1]), s[2]) = 1}

\* probe templates the caller can supply: (class, init_kwargs)
Probes ==
    { [class |-> "TitForTat", kwargs |-> "{}"],
      [class |-> "Random", kwargs |-> "{p: 0.5}"] }

\* get_class_and_kwargs: the class and kwargs that re-create the player
get_class_and_kwargs(probe) == <<probe.class, probe.kwargs>>

player == "player"

\* ------------------------------------------------------------ PointGrid
\* int(1 / self._step) + 1
points_per_side(step) == IntDiv(step[2], step[1]) + 1

\* 1 / step divides by zero; np.linspace rejects a negative sample count
CreatePointsRaises(step) ==
    IF step[1] = 0 THEN TRUE ELSE points_per_side(step) < 0

CreatePointsError(step) ==
    IF step[1] = 0 THEN "ZeroDivisionError" ELSE "ValueError"

\* np.linspace(0, 1, num)
linspace(num) ==
    IF num = 1 THEN <<Frac(0, 1)>>
    ELSE [i \in 1..num |-> Frac(i - 1, num - 1)]

Point(x, y) == [x |-> x, y |-> y]

_create_points(step) ==
    LET L == points_per_side(step)
        ls == linspace(L)
    IN [k \in 1..(L * L) |-> Point(ls[((k - 1) \div L) + 1], ls[((k - 1) % L) + 1])]

\* ------------------------------------------------------ ProbeTransformer
\* x + y >= 1 on the grid values
SumGeqOne(x, y) == x[1] * y[2] + y[1] * x[2] >= x[2] * y[2]

OneMinus(x) == Frac(x[2] - x[1], x[2])

JossAnn(a, b) == [name |-> "JossAnn", probs |-> <<a, b>>]
Dual == [name |-> "Dual", probs |-> <<>>]

\* _create_jossann with the diagonal left on the non-dual branch (x + y > 1)
_create_jossann_strict(point, cls, kwargs) ==
    IF point.x[1] * point.y[2] + point.y[1] * point.x[2] > point.x[2] * point.y[2]
    THEN [class |-> cls,
          transformers |-> <<JossAnn(OneMinus(point.x), OneMinus(point.y)), Dual>>,
          kwargs |-> kwargs]
    ELSE [class |-> cls,
          transformers |-> <<JossAnn(point.x, point.y)>>,
          kwargs |-> kwargs]

\* transformers lists the transformers in the order they wrap the class:
\* transformers[1] is applied to the probe class, transformers[2] to that.
_create_jossann(point, cls, kwargs) ==
    IF SumGeqOne(point.x, point.y)
    THEN [class |-> cls,
          transformers |-> <<JossAnn(OneMinus(point.x), OneMinus(point.y)), Dual>>,
          kwargs |-> kwargs]
    ELSE [class |-> cls,
          transformers |-> <<JossAnn(point.x, point.y)>>,
          kwargs |-> kwargs]

_create_probes(pts, cls, kwargs) ==
    [i \in 1..Len(pts) |-> _create_jossann(pts[i], cls, kwargs)]

VARIABLES _probe_class, _probe_kwargs, _step, points, _probe_list,
          interactions, data, on_windows, call, plotting_data

vars == <<_probe_class, _probe_kwargs, _step, points, _probe_list,
          interactions, data, on_windows, call, plotting_data>>

EmptyDict == [k \in {} |-> 0]

\* What the last call was, how it ended and what it did on the way:
\* tournament is the SpatialTournament it built (its players beyond the
\* subject, its edges and its repetitions), played whether play was invoked.
NoTournament == [players |-> <<>>, edges |-> <<>>, turns |-> 0, repetitions |-> 0]

Call(op, arg, outcome) ==
    [op |-> op, step_arg |-> arg, outcome |-> outcome,
     tournament |-> NoTournament, played |-> FALSE,
     in_memory |-> FALSE, acquired |-> 0, read |-> FALSE,
     sink_at_read |-> "none", sink_at_exit |-> "none"]

\* AshlockFingerprint(strategy, probe, step) on a platform
Construct(windows, StepsIn) ==
    /\ on_windows \in windows
    /\ \E probe \in Probes, step \in StepsIn :
        /\ ~CreatePointsRaises(step)
        /\ _probe_class = get_class_and_kwargs(probe)[1]
        /\ _probe_kwargs = get_class_and_kwargs(probe)[2]
        /\ _step = step
        /\ points = _create_points(step)
        /\ _probe_list = _create_probes(_create_points(step),
                                        get_class_and_kwargs(probe)[1],
                                        get_class_and_kwargs(probe)[2])
        /\ call = Call("__init__", step, "return")
    /\ interactions = EmptyDict
    /\ data = EmptyDict
    /\ plotting_data = NoMatrix

Init == Construct({FALSE}, Steps)

\* step.setter
StepSetter(new_step) ==
    /\ _step' = new_step
    /\ IF CreatePointsRaises(new_step)
       THEN /\ UNCHANGED <<points, _probe_list>>
            /\ call' = Call("step", new_step, CreatePointsError(new_step))
       ELSE /\ points' = _create_points(new_step)
            /\ _probe_list' = _create_probes(_create_points(new_step),
                                             _probe_class, _probe_kwargs)
            /\ call' = Call("step", new_step, "return")
    /\ plotting_data' = NoMatrix
    /\ UNCHANGED <<_probe_class, _probe_kwargs, interactions, data,
                   on_windows>>

\* probe.setter
ProbeSetter(new_probe) ==
    /\ _probe_class' = get_class_and_kwargs(new_probe)[1]
    /\ _probe_kwargs' = get_class_and_kwargs(new_probe)[2]
    /\ _probe_list' = _create_probes(points, get_class_and_kwargs(new_probe)[1],
                                     get_class_and_kwargs(new_probe)[2])
    /\ call' = Call("probe", NoStep, "return")
    /\ plotting_data' = NoMatrix
    /\ UNCHANGED <<_step, points, interactions, data, on_windows>>

\* --------------------------------------------------- ExperimentRunner
DefaultTurns == 50

Filenames == {None, "results.csv"}

Range(seq) == {seq[i] : i \in 1..Len(seq)}

\* one trial's record, already reduced to the per-turn scores
\* (subject, probe) that compute_final_score_per_turn returns
Trial(seed, edge, t) ==
    <<(seed + edge[2] * t) % ScoreMod, (seed + edge[2] + t) % ScoreMod>>

compute_final_score_per_turn(scores) == scores

\* the records an engine that honours its contract delivers
Honest(edges, repetitions, seed) ==
    [e \in Range(edges) |-> [t \in 1..repetitions |-> Trial(seed, e, t)]]

\* the records of every edge but one
Drop(f, e) == [k \in (DOMAIN f) \ {e} |-> f[k]]

\* one edge's records lose their last trial
Short(f, e) == [f EXCEPT ![e] = SubSeq(@, 1, Len(@) - 1)]

\* how the engine behaves in one run: it raises, honours its contract, or
\* delivers records that break it on the batch's last edge
HonestEngines == {[kind |-> "honest", seed |-> s] : s \in {0, 1}}
RaisingEngine == [kind |-> "raise", seed |-> 0]
FaultyEngines == {[kind |-> k, seed |-> 0] : k \in {"drop", "short"}}

\* what play / read_interactions_from_file hand back for a batch
Deliver(engine, edges, repetitions) ==
    LET h == Honest(edges, repetitions, engine.seed)
    IN IF engine.kind = "honest" \/ edges = <<>> THEN h
       ELSE IF engine.kind = "drop" THEN Drop(h, edges[Len(edges)])
       ELSE Short(h, edges[Len(edges)])

\* the error of a play that raises instead of delivering records
EngineError == "EngineError"

\* ----------------------------------------------------- ScoreAggregator
RECURSIVE SumSeq(_)
SumSeq(s) == IF s = <<>> THEN 0 ELSE s[1] + SumSeq(Tail(s))

\* np.mean of a list, as the exact quotient sum / n (n = 0 is nan)
Mean(s) == [sum |-> SumSeq(s), n |-> Len(s)]

Min(a, b) == IF a < b THEN a ELSE b

\* self.interactions[edge] raises KeyError for an edge without records
GenerateDataRaises(edges, inter) ==
    \E i \in 1..Len(edges) : edges[i] \notin DOMAIN inter

edge_scores(edges, inter) ==
    [i \in 1..Len(edges) |->
        Mean([t \in 1..Len(inter[edges[i]]) |->
                 compute_final_score_per_turn(inter[edges[i]][t])[1]])]

\* dict(zip(keys, values)): pairs up to the shorter list, last pair wins
DictZip(keys, values) ==
    LET m == Min(Len(keys), Len(values))
    IN [k \in {keys[i] : i \in 1..m} |->
           values[CHOOSE i \in 1..m :
                     /\ keys[i] = k
                     /\ \A j \in (i + 1)..m : keys[j] # k]]

\* _generate_data pairing grid[i] with edge i + 1 (the means shifted by one)
_generate_data_shifted(pts, edges, inter) ==
    LET es == edge_scores(edges, inter)
    IN DictZip(pts, IF es = <<>> THEN es ELSE Tail(es) \o <<es[1]>>)

_generate_data(pts, edges, inter) == DictZip(pts, edge_scores(edges, inter))

\* `if new_step:` is false for None and for a zero step
Truthy(new_step) == IF new_step = NoStep THEN FALSE ELSE new_step[1] # 0

\* the edges with range(1, len(self._probe_list)): the last probe unpaired
EdgesShort(probe_list) == [i \in 1..(Len(probe_list) - 1) |-> <<0, i>>]

\* [(0, probe_index) for probe_index in range(1, len(self._probe_list) + 1)]
Edges(probe_list) == [i \in 1..Len(probe_list) |-> <<0, i>>]

\* fingerprint(turns, repetitions, new_step, processes, filename, in_memory)
\* with the engine's behaviour in this run
Fingerprint(turns, repetitions, new_step, filename, in_memory_arg, engine) ==
    LET forced == on_windows /\ filename = None
        in_memory == IF forced THEN TRUE ELSE in_memory_arg
        \* output_file = NamedTemporaryFile(mode='w'); no statement closes it
        acquired == IF ~forced /\ filename = None THEN 1 ELSE 0
        held == IF acquired = 1 THEN "open" ELSE "none"
        set == Truthy(new_step)
        c0 == [Call("fingerprint", new_step, "return") EXCEPT
                   !.in_memory = in_memory, !.acquired = acquired,
                   !.sink_at_exit = held]
    IN
    /\ plotting_data' = NoMatrix
    /\ UNCHANGED <<_probe_class, _probe_kwargs, on_windows>>
    /\ IF set /\ CreatePointsRaises(new_step)
       THEN \* self.step = new_step raises in _create_points
            /\ _step' = new_step
            /\ call' = [c0 EXCEPT !.outcome = CreatePointsError(new_step)]
            /\ UNCHANGED <<points, _probe_list, interactions, data>>
       ELSE
         LET step1 == IF set THEN new_step ELSE _step
             points1 == IF set THEN _create_points(new_step) ELSE points
             probes1 == IF set
                        THEN _create_probes(points1, _probe_class, _probe_kwargs)
                        ELSE _probe_list
             edges == Edges(probes1)
             c1 == [c0 EXCEPT !.played = TRUE,
                              !.tournament =
                                 [players |-> <<player>> \o probes1,
                                  edges |-> edges, turns |-> turns,
                                  repetitions |-> repetitions]]
             outcome == Deliver(engine, edges, repetitions)
         IN
         /\ _step' = step1
         /\ points' = points1
         /\ _probe_list' = probes1
         /\ IF engine.kind = "raise"
            THEN \* spatial_tournament.play raises
                 /\ call' = [c1 EXCEPT !.outcome = EngineError]
                 /\ UNCHANGED <<interactions, data>>
            ELSE /\ interactions' = outcome
                 /\ IF GenerateDataRaises(edges, outcome)
                    THEN /\ call' = [c1 EXCEPT !.outcome = "KeyError",
                                               !.read = ~in_memory,
                                               !.sink_at_read = held]
                         /\ UNCHANGED data
                    ELSE /\ data' = _generate_data(points1, edges, outcome)
                         /\ call' = [c1 EXCEPT !.read = ~in_memory,
                                               !.sink_at_read = held]

\* -------------------------------------------------------- GridReshaper
\* the reshape in row-major order (order='C'): element [i][j] is a[i * n + j]
ReshapeC(a, n) ==
    [i \in 1..n |-> [j \in 1..n |-> a[(i - 1) * n + (j - 1) + 1]]]

\* np.reshape(a, (n, n), order='F'): element [i][j] is a[i + j * n]
ReshapeF(a, n) ==
    [i \in 1..n |-> [j \in 1..n |-> a[(i - 1) + (j - 1) * n + 1]]]

\* np.flipud: reverse the order of the rows
flipud(m) == [i \in 1..Len(m) |-> m[Len(m) + 1 - i]]

ReshapeDataError ==
    IF _step[1] = 0 THEN "ZeroDivisionError"
    ELSE IF \E i \in 1..Len(points) : points[i] \notin DOMAIN data
         THEN "KeyError"
    ELSE IF \/ points_per_side(_step) < 0
            \/ Len(points) # points_per_side(_step) * points_per_side(_step)
         THEN "ValueError"
    ELSE "return"

_reshape_data ==
    LET side_len == points_per_side(_step)
        ordered_data == [i \in 1..Len(points) |-> data[points[i]]]
        shaped_data == ReshapeF(ordered_data, side_len)
    IN flipud(shaped_data)

\* plot() -> _reshape_data()
ReshapeData ==
    /\ call' = Call("_reshape_data", NoStep, ReshapeDataError)
    /\ plotting_data' = IF ReshapeDataError = "return" THEN _reshape_data
                        ELSE NoMatrix
    /\ UNCHANGED <<_probe_class, _probe_kwargs, _step, points, _probe_list,
                   interactions, data, on_windows>>

\* ------------------------------------------------------ specifications
\* Every step and probe change, runs with the default transport
\* (fingerprint()'s filename=None, in_memory=False) on an engine that
\* raises or honours its contract.
Next ==
    \/ \E new_step \in Steps : StepSetter(new_step)
    \/ \E new_probe \in Probes : ProbeSetter(new_probe)
    \/ \E repetitions \in 1..MaxReps, new_step \in Steps \cup {NoStep},
          engine \in HonestEngines \cup {RaisingEngine} :
          Fingerprint(DefaultTurns, repetitions, new_step, None, FALSE, engine)
    \/ ReshapeData

Spec == Init /\ [][Next]_vars

\* The calls whose steps are in (0, 1], on whatever the engine delivers,
\* its contract kept or broken.
ValidSteps == {s \in Steps : s[1] > 0 /\ s[1] <= s[2]}

InitValid == Construct({FALSE}, ValidSteps)

NextValid ==
    \/ \E new_step \in ValidSteps : StepSetter(new_step)
    \/ \E new_probe \in Probes : ProbeSetter(new_probe)
    \/ \E repetitions \in 1..MaxReps, new_step \in ValidSteps \cup {NoStep},
          engine \in HonestEngines \cup FaultyEngines :
          Fingerprint(DefaultTurns, repetitions, new_step, None, FALSE, engine)
    \/ ReshapeData

SpecValid == InitValid /\ [][NextValid]_vars

\* Every transport (platform, filename, in_memory) on every exit path of
\* fingerprint: the step setter raising, play raising, a normal return.
InitSink == Construct(BOOLEAN, ValidSteps)

NextSink ==
    \/ \E new_probe \in Probes : ProbeSetter(new_probe)
    \/ \E new_step \in Steps \cup {NoStep}, filename \in Filenames,
          in_memory \in BOOLEAN, engine \in {RaisingEngine} \cup HonestEngines :
          Fingerprint(DefaultTurns, 1, new_step, filename, in_memory, engine)

SpecSink == InitSink /\ [][NextSink]_vars

\* ------------------------------------------------------------- claims
Returned(op) == call.op = op /\ call.outcome = "return"

HasDual(probe) ==
    \E k \in 1..Len(probe.transformers) : probe.transformers[k].name = "Dual"

JossAnnProbs(probe) ==
    {probe.transformers[k].probs :
        k \in {j \in 1..Len(probe.transformers) :
                  probe.transformers[j].name = "JossAnn"}}

\* the k-th (from 0) of the L values sampled on an axis
GridValue(L, k) == IF L = 1 THEN <<0, 1>> ELSE Frac(k, L - 1)

Zero == <<0, 1>>
One == <<1, 1>>
Half == <<1, 2>>

C2_DualFirst ==
    \A i \in 1..Len(_probe_list) :
        HasDual(_probe_list[i]) =>
            /\ _probe_list[i].transformers =
                   <<Dual, JossAnn(OneMinus(points[i].x), OneMinus(points[i].y))>>
            /\ _probe_list[i].kwargs = _probe_kwargs

\* C3: _reshape_data returns an L x L matrix M, L = int(1/step) + 1, with
\* M[r][c] the score of the coordinate whose x is the c-th grid value and
\* whose y is the (L-1-r)-th; with at least two values per axis M[0][0] is
\* the score of (0, 1) and M[L-1][L-1] the score of (1, 0).
C3_Reshape ==
    Returned("_reshape_data") =>
        LET L == points_per_side(_step)
        IN /\ Len(plotting_data) = L
           /\ \A r, c \in 0..(L - 1) :
                /\ Len(plotting_data[r + 1]) = L
                /\ plotting_data[r + 1][c + 1] =
                       data[Point(GridValue(L, c), GridValue(L, L - 1 - r))]
           /\ L >= 2 =>
                /\ plotting_data[1][1] = data[Point(Zero, One)]
                /\ plotting_data[L][L] = data[Point(One, Zero)]

\* a 3 x 3 matrix was returned whose corner scores differ from each other
\* and from the score at the origin
C3_Witness ==
    /\ Returned("_reshape_data")
    /\ Len(plotting_data) = 3
    /\ plotting_data[1][1] # plotting_data[3][3]
    /\ plotting_data[1][1] # plotting_data[3][1]
    /\ plotting_data[3][3] # plotting_data[3][1]

\* C4: a fingerprint() run that returns built exactly the star edges
\* (0, 1)..(0, N) over the subject and the current battery, N the number
\* of coordinates of the grid in force (that of new_step when the run
\* passed one), and its ScoreMap maps grid[i-1] to the mean over the trials
\* of edge (0, i) of the subject's per-turn score, for every i in 1..N.
C4_RunAligned ==
    Returned("fingerprint") =>
        LET N == Len(points)
            t == call.tournament
        IN /\ call.played
           /\ t.players = <<player>> \o _probe_list
           /\ Len(t.edges) = N
           /\ Range(t.edges) = {<<0, i>> : i \in 1..N}
           /\ Truthy(call.step_arg) => _step = call.step_arg
           /\ ~CreatePointsRaises(_step) =>
                  N = points_per_side(_step) * points_per_side(_step)
           /\ DOMAIN interactions = {<<0, i>> : i \in 1..N}
           /\ DOMAIN data = Range(points)
           /\ \A i \in 1..N :
                LET trials == interactions[<<0, i>>]
                IN data[points[i]] =
                       [sum |-> SumSeq([k \in 1..Len(trials) |-> trials[k][1]]),
                        n |-> Len(trials)]

\* a run that passed new_step = 0.5 returned scores for the 9 coordinates,
\* not all equal
C4_Witness ==
    /\ Returned("fingerprint")
    /\ call.step_arg = Half
    /\ Len(points) = 9
    /\ call.tournament.repetitions = 2
    /\ \E i, j \in 1..9 : data[points[i]] # data[points[j]]

\* C5: a call that changes the step or the probe template leaves none of
\* the interactions and no ScoreMap stored before it in place: whatever was
\* stored is emptied or replaced by the call.
C5_Invalidates ==
    [][ (\/ _step' # _step
         \/ _probe_class' # _probe_class
         \/ _probe_kwargs' # _probe_kwargs)
        => /\ DOMAIN interactions = {} \/ interactions' # interactions
           /\ DOMAIN data = {} \/ data' # data ]_vars

Floor(a, b) == IF b > 0 THEN a \div b ELSE (-a) \div (-b)

\* C7: in every reachable state the grid has (floor(1/step) + 1)^2
\* coordinates in x-major / y-minor order for the current step, and the
\* battery has one probe per coordinate, in grid order, built from the
\* current template.
C7_GridOfCurrentStep ==
    /\ _step[1] # 0
    /\ LET L == Floor(_step[2], _step[1]) + 1
       IN /\ L >= 0
          /\ Len(points) = L * L
          /\ \A k \in 1..Len(points) :
                points[k] = Point(GridValue(L, (k - 1) \div L),
                                  GridValue(L, (k - 1) % L))
    /\ Len(_probe_list) = Len(points)
    /\ \A k \in 1..Len(points) :
          _probe_list[k] = _create_jossann(points[k], _probe_class, _probe_kwargs)

\* C8: a step <= 0 given to the constructor, to the step setter or as
\* new_step to fingerprint() makes the call raise before any experiment
\* runs: the call does not return and play is not invoked.
C8_NonPositiveStepRejected ==
    (/\ call.op \in {"__init__", "step", "fingerprint"}
     /\ call.step_arg # NoStep
     /\ call.step_arg[1] <= 0)
    => /\ call.outcome \in {"ZeroDivisionError", "ValueError"}
       /\ ~call.played

\* C9: a run returns a ScoreMap only when every edge of the batch has an
\* entry in the outcomes holding exactly `repetitions` trials.
C9_CompleteOutcomes ==
    Returned("fingerprint") =>
        \A i \in 1..Len(call.tournament.edges) :
            /\ call.tournament.edges[i] \in DOMAIN interactions
            /\ Len(interactions[call.tournament.edges[i]]) =
                   call.tournament.repetitions

\* C10: a streamed run acquires at most one sink of its own (none when the
\* caller names the file); the sink it acquired is closed before the
\* outcomes are read back, and on every exit path, a failing play
\* included, it is released by the time fingerprint() is left.
C10_SinkReleased ==
    (call.op = "fingerprint" /\ ~call.in_memory) =>
        /\ call.acquired <= 1
        /\ call.acquired = 1 =>
              /\ call.read => call.sink_at_read = "closed"
              /\ call.sink_at_exit = "closed"
====
